---- MODULE Spec2Model ----
(***************************************************************************)
(* Physics3D, simulation.py: the simulation-render-calibration script.     *)
(*                                                                         *)
(* Spec      the solver set-up and the stage loop (lines 317-611), one     *)
(*           action per statement of the script that changes state.       *)
(* SpecPrep  the particle-set preprocessing (lines 141-311) followed by    *)
(*           the per-frame coupling of simulated and frozen particles      *)
(*           (lines 442-469 and 560-587), on explicit particle arrays.     *)
(*                                                                         *)
(* The MPM solver, the tape, the rasterizer and the guidance model are     *)
(* used by the script but defined elsewhere; their effects on the state    *)
(* the script can observe are modelled as operators on an abstract value.  *)
(***************************************************************************)
EXTENDS Integers, Sequences, FiniteSets, TLC

VARIABLES
    pc,               \* position of the script
    step_per_frame,   \* int(frame_dt / substep_dt), line 393
    has_output_path,  \* args.output_path is not None
    batch,            \* loop variable of line 407
    frame,            \* loop variable of line 417 / 537
    sub,              \* substeps done in the current warm-up / frame loop
    tape,             \* wp.Tape(): [open: scopes entered and not left, ops: launches recorded]
    mpm_solver,       \* MPM_Simulator_WARP: particle state, material fields, derived stiffness
    img_list,         \* number of renderings collected in the stage, line 482
    stage_reads,      \* finalize_mu_lam calls since the stage began
    stage_writes,     \* update_param launches per field since the stage began
    taped_subs,       \* p2g2p calls recorded on the tape since the current loop began
    last_taped,       \* whether the most recent p2g2p ran inside a tape scope
    frames_written,   \* cv2.imwrite calls of the current output rollout
    img_stages,       \* stages in which cv2.imwrite was called
    videos,           \* stages whose video file was written
    cfg,              \* preprocessing configuration (SpecPrep)
    arrays,           \* the particle arrays of the preprocessing (SpecPrep)
    raster,           \* the arrays last handed to the rasterizer (SpecPrep)
    warmups,          \* warm-up substeps executed by each stage so far, in stage order
    loss,             \* the loss of line 484-491 as last computed
    missing,          \* the required files that do not exist
    transform,        \* rotation_matrices, scale_origin, original_mean_pos
    inv_used,         \* the transform values the last inverse normalization read
    arg,              \* input of a function under check (SpecGrad, SpecRoundTrip)
    res,              \* its result
    advances,         \* p2g2p calls since the stage began or since the last reset
    out_dir           \* files in args.output_path: [name, stage that wrote it]

confVars == <<step_per_frame, has_output_path>>
fileVars == <<frames_written, img_stages, videos>>
loopVars == <<pc, step_per_frame, has_output_path, batch, frame, sub, tape, mpm_solver,
              img_list, stage_reads, stage_writes, taped_subs, last_taped,
              frames_written, img_stages, videos>>
\* loopVars without pc
loopKeep == <<step_per_frame, has_output_path, batch, frame, sub, tape, mpm_solver,
              img_list, stage_reads, stage_writes, taped_subs, last_taped,
              frames_written, img_stages, videos>>
prepVars == <<cfg, arrays, raster>>
auxOld == <<warmups, loss, missing, transform, inv_used, arg, res>>
auxVars == <<auxOld, advances, out_dir>>
vars == <<loopVars, prepVars, auxVars>>

(***************************************************************************)
(* Program constants and model bounds.                                     *)
(***************************************************************************)
stage_num == 8
frame_per_stage == 16
NumBatches == 50

MaxStepPerFrame == 2   \* step_per_frame ranges over 1..MaxStepPerFrame
MaxX == 1              \* particle states a substep can produce: 0..MaxX
NumParticles == 3      \* particles of the loaded scene: 1..NumParticles
MaxFill == 1           \* interior particles the filler may add: 0..MaxFill
MaxGradLen == 3        \* elements of a gradient tensor: 1..MaxGradLen
MaxGrad == 2           \* gradient values: -MaxGrad..MaxGrad
MaxCoord == 1          \* particle coordinates: 0..MaxCoord
MaxRot == 2            \* rotations of the preprocessing configuration: 0..MaxRot

FieldNames == {"E", "mu_N", "lam_N", "viscosity"}
\* lines 89-93: the files the command line names
RequiredFiles == {"model_path", "physics_config", "guidance_config"}

\* The state captured at load time: (mpm_init_pos, mpm_init_vol, mpm_init_cov).
mpm_init == 0

\* finalized: finalize_mu_lam has run since the most recent load or reset.
NoSolver == [loaded |-> FALSE, params |-> FALSE, bc |-> FALSE, particle |-> -1,
             field |-> [q \in FieldNames |-> -1], mu_lam |-> <<>>,
             finalized |-> FALSE]

(***************************************************************************)
(* The solver's methods, as far as the script observes them.               *)
(***************************************************************************)
\* load: allocates the state and stores positions, volumes and covariances.
load_initial_data_from_torch(s, init) ==
    [s EXCEPT !.loaded = TRUE, !.particle = init, !.finalized = FALSE]

\* set_material_fields: injects the configured material fields (version 0).
set_parameters_dict(s) ==
    [s EXCEPT !.params = TRUE, !.field = [q \in FieldNames |-> 0]]

\* finalize: derives the per-particle stiffness from the current fields.
finalize_mu_lam(s) ==
    [s EXCEPT !.mu_lam = <<s.field>>, !.finalized = TRUE]

\* advance: one substep; the physics is opaque, x is the state it produces.
p2g2p(s, x) ==
    [s EXCEPT !.particle = x]

\* reset_to_checkpoint: positions, volumes, covariances back to the given
\* values; the material fields are not touched.
reset_pos_from_torch(s, init) ==
    [s EXCEPT !.particle = init, !.finalized = FALSE]

\* update_param kernel: mutates one field in place (a new version of it).
update_param(s, q) ==
    [s EXCEPT !.field[q] = @ + 1]

(***************************************************************************)
(* Spec: set-up of the solver and the stage loop.                          *)
(***************************************************************************)
Init ==
    /\ pc = "check_paths"
    /\ step_per_frame \in 1..MaxStepPerFrame
    /\ has_output_path \in BOOLEAN
    /\ batch = 0
    /\ frame = 0
    /\ sub = 0
    /\ tape = [open |-> 0, ops |-> 0]
    /\ mpm_solver = NoSolver
    /\ img_list = 0
    /\ stage_reads = 0
    /\ stage_writes = [q \in FieldNames |-> 0]
    /\ taped_subs = 0
    /\ last_taped = FALSE
    /\ frames_written = 0
    /\ img_stages = {}
    /\ videos = {}
    /\ cfg = <<>>
    /\ arrays = <<>>
    /\ raster = <<>>
    /\ warmups = <<>>
    /\ loss = "none"
    /\ missing \in SUBSET RequiredFiles
    /\ transform = <<>>
    /\ inv_used = <<>>
    /\ arg = <<>>
    /\ res = <<>>
    /\ advances = 0
    /\ out_dir = {}

\* lines 100-105: each test builds an AssertionError object and drops it;
\* nothing is raised whatever the outcome of os.path.exists
CheckPaths ==
    /\ pc = "check_paths"
    /\ pc' = "decode_params"
    /\ UNCHANGED <<loopKeep, prepVars, auxVars>>

\* line 117: decode_param_json reads the physics configuration file
DecodeParams ==
    /\ pc = "decode_params"
    /\ pc' = IF "physics_config" \in missing THEN "abort" ELSE "load_gaussians"
    /\ UNCHANGED <<loopKeep, prepVars, auxVars>>

\* line 122: load_checkpoint lists and reads the model directory
LoadCheckpoint ==
    /\ pc = "load_gaussians"
    /\ pc' = IF "model_path" \in missing THEN "abort" ELSE "preprocess"
    /\ UNCHANGED <<loopKeep, prepVars, auxVars>>

\* The Transform Record computed from particle positions x: the rotation
\* matrices come from the configuration alone, scale and centroid from x.
TransformOf(x) ==
    [ rotation_matrices |-> "preprocessing_params",
      scale_origin |-> <<"scale", x>>,
      original_mean_pos |-> <<"mean", x>> ]

\* lines 127-311 (in detail: SpecPrep): preprocessing of the loaded set;
\* lines 184-187 and 212 compute rotation_matrices, scale_origin and
\* original_mean_pos from it
Preprocess ==
    /\ pc = "preprocess"
    /\ transform' = TransformOf(mpm_init)
    /\ pc' = "load"
    /\ UNCHANGED <<loopKeep, prepVars, warmups, loss, missing, inv_used, arg, res, advances, out_dir>>

\* line 399: OmegaConf.load reads the guidance configuration file
LoadGuidanceConfig ==
    /\ pc = "guidance_config"
    /\ pc' = IF "guidance_config" \in missing THEN "abort" ELSE "stage"
    /\ UNCHANGED <<loopKeep, prepVars, auxVars>>

\* line 318
LoadInitialData ==
    /\ pc = "load"
    /\ mpm_solver' = load_initial_data_from_torch(mpm_solver, mpm_init)
    /\ pc' = "set_params"
    /\ UNCHANGED <<step_per_frame, has_output_path, batch, frame, sub, tape, img_list,
                   stage_reads, stage_writes, taped_subs, last_taped, frames_written,
                   img_stages, videos, prepVars, auxVars>>

\* Mutant: the calls of lines 325 and 328 swapped, boundary conditions first.
SetParametersMut ==
    /\ pc = "set_params"
    /\ mpm_solver' = [mpm_solver EXCEPT !.bc = TRUE]
    /\ pc' = "set_bc"
    /\ UNCHANGED <<step_per_frame, has_output_path, batch, frame, sub, tape, img_list,
                   stage_reads, stage_writes, taped_subs, last_taped, frames_written,
                   img_stages, videos, prepVars, auxVars>>

\* line 325
SetParameters ==
    /\ pc = "set_params"
    /\ mpm_solver' = set_parameters_dict(mpm_solver)
    /\ pc' = "set_bc"
    /\ UNCHANGED <<step_per_frame, has_output_path, batch, frame, sub, tape, img_list,
                   stage_reads, stage_writes, taped_subs, last_taped, frames_written,
                   img_stages, videos, prepVars, auxVars>>

\* line 328; the finalize_mu_lam of line 354 is commented out
SetBoundaryConditions ==
    /\ pc = "set_bc"
    /\ mpm_solver' = [mpm_solver EXCEPT !.bc = TRUE]
    /\ pc' = "guidance_config"
    /\ UNCHANGED <<step_per_frame, has_output_path, batch, frame, sub, tape, img_list,
                   stage_reads, stage_writes, taped_subs, last_taped, frames_written,
                   img_stages, videos, prepVars, auxVars>>

\* with tape: entering and leaving a recording scope
tape_enter(t) == [t EXCEPT !.open = @ + 1]
tape_exit(t) == [t EXCEPT !.open = @ - 1]
\* a kernel launch is recorded when a scope is open
tape_record(t) == [t EXCEPT !.ops = IF t.open > 0 THEN @ + 1 ELSE @]

\* One substep, mpm_solver.p2g2p(...), producing particle state x.
Advance(x) ==
    /\ mpm_solver' = p2g2p(mpm_solver, x)
    /\ tape' = tape_record(tape)
    /\ last_taped' = (tape.open > 0)
    /\ taped_subs' = IF tape.open > 0 THEN taped_subs + 1 ELSE taped_subs
    /\ sub' = sub + 1
    /\ advances' = advances + 1

\* Mutant: the whole stage body placed inside a with tape block.
StageStartMut ==
    /\ pc = "stage"
    /\ batch < NumBatches
    /\ img_list' = 0
    /\ tape' = tape_enter([tape EXCEPT !.ops = 0])
    /\ stage_reads' = 0
    /\ stage_writes' = [q \in FieldNames |-> 0]
    /\ advances' = 0
    /\ pc' = "fin_enter"
    /\ UNCHANGED <<confVars, batch, frame, sub, mpm_solver, taped_subs, last_taped,
                   fileVars, prepVars, auxOld, out_dir>>

\* lines 407-410: next stage; loss_value = 0, img_list = [], tape.reset()
StageStart ==
    /\ pc = "stage"
    /\ batch < NumBatches
    /\ img_list' = 0
    /\ tape' = [tape EXCEPT !.ops = 0]
    /\ stage_reads' = 0
    /\ stage_writes' = [q \in FieldNames |-> 0]
    /\ advances' = 0
    /\ pc' = "fin_enter"
    /\ UNCHANGED <<confVars, batch, frame, sub, mpm_solver, taped_subs, last_taped,
                   fileVars, prepVars, auxOld, out_dir>>

\* Mutant: the loop left one stage early.
LoopEndMut ==
    /\ pc = "stage"
    /\ batch = NumBatches - 1
    /\ pc' = "done"
    /\ UNCHANGED <<confVars, batch, frame, sub, tape, mpm_solver, img_list, stage_reads,
                   stage_writes, taped_subs, last_taped, fileVars, prepVars, auxVars>>

\* line 407: range(50) is exhausted
LoopEnd ==
    /\ pc = "stage"
    /\ batch = NumBatches
    /\ pc' = "done"
    /\ UNCHANGED <<confVars, batch, frame, sub, tape, mpm_solver, img_list, stage_reads,
                   stage_writes, taped_subs, last_taped, fileVars, prepVars, auxVars>>

\* line 411
FinalizeEnter ==
    /\ pc = "fin_enter"
    /\ tape' = tape_enter(tape)
    /\ pc' = "fin"
    /\ UNCHANGED <<confVars, batch, frame, sub, mpm_solver, img_list, stage_reads,
                   stage_writes, taped_subs, last_taped, fileVars, prepVars, auxVars>>

\* line 412
Finalize ==
    /\ pc = "fin"
    /\ mpm_solver' = finalize_mu_lam(mpm_solver)
    /\ tape' = tape_record(tape)
    /\ stage_reads' = stage_reads + 1
    /\ pc' = "fin_exit"
    /\ UNCHANGED <<confVars, batch, frame, sub, img_list, stage_writes, taped_subs,
                   last_taped, fileVars, prepVars, auxVars>>

\* Mutant: the warm-up loop indented into the with block of line 411.
FinalizeExitMut ==
    /\ pc = "fin_exit"
    /\ sub' = 0
    /\ taped_subs' = 0
    /\ pc' = "warmup"
    /\ UNCHANGED <<confVars, batch, frame, tape, mpm_solver, img_list, stage_reads,
                   stage_writes, last_taped, fileVars, prepVars, auxVars>>

\* end of the with block of lines 411-412
FinalizeExit ==
    /\ pc = "fin_exit"
    /\ tape' = tape_exit(tape)
    /\ sub' = 0
    /\ taped_subs' = 0
    /\ pc' = "warmup"
    /\ UNCHANGED <<confVars, batch, frame, mpm_solver, img_list, stage_reads,
                   stage_writes, last_taped, fileVars, prepVars, auxVars>>

\* Mutant: the warm-up count without the modulo.
WarmUpCountMut == step_per_frame * batch

\* line 414: the warm-up count of the stage
WarmUpCount == step_per_frame * (batch % stage_num)

\* lines 414-415
WarmUpStep ==
    /\ pc = "warmup"
    /\ sub < WarmUpCount
    /\ \E x \in 0..MaxX : Advance(x)
    /\ UNCHANGED <<pc, confVars, batch, frame, img_list, stage_reads, stage_writes,
                   fileVars, prepVars, auxOld, out_dir>>

\* line 414: the warm-up loop is exhausted; line 417 starts
WarmUpDone ==
    /\ pc = "warmup"
    /\ sub = WarmUpCount
    /\ frame' = 0
    /\ warmups' = Append(warmups, sub)
    /\ pc' = "frame"
    /\ UNCHANGED <<confVars, batch, sub, tape, mpm_solver, img_list, stage_reads,
                   stage_writes, taped_subs, last_taped, fileVars, prepVars,
                   loss, missing, transform, inv_used, arg, res, advances, out_dir>>

\* lines 417-435: next frame; camera and rasterizer set-up
FrameHead ==
    /\ pc = "frame"
    /\ frame < frame_per_stage
    /\ sub' = 0
    /\ taped_subs' = 0
    /\ pc' = "substeps"
    /\ UNCHANGED <<confVars, batch, frame, tape, mpm_solver, img_list, stage_reads,
                   stage_writes, last_taped, fileVars, prepVars, auxVars>>

\* Mutant: all the substeps of a frame run before the recorded one.
UntapedCountMut == step_per_frame * (1 + stage_num)

\* line 437: substeps of a frame that run before the with block
UntapedCount == step_per_frame * (1 + stage_num) - 1

\* lines 437-438
UntapedStep ==
    /\ pc = "substeps"
    /\ sub < UntapedCount
    /\ \E x \in 0..MaxX : Advance(x)
    /\ UNCHANGED <<pc, confVars, batch, frame, img_list, stage_reads, stage_writes,
                   fileVars, prepVars, auxOld, out_dir>>

\* line 439
FrameTapeEnter ==
    /\ pc = "substeps"
    /\ sub = UntapedCount
    /\ tape' = tape_enter(tape)
    /\ pc' = "taped_step"
    /\ UNCHANGED <<confVars, batch, frame, sub, mpm_solver, img_list, stage_reads,
                   stage_writes, taped_subs, last_taped, fileVars, prepVars, auxVars>>

\* line 440
TapedStep ==
    /\ pc = "taped_step"
    /\ \E x \in 0..MaxX : Advance(x)
    /\ pc' = "export"
    /\ UNCHANGED <<confVars, batch, frame, img_list, stage_reads, stage_writes,
                   fileVars, prepVars, auxOld, out_dir>>

\* lines 442-444: the state of the frame is read inside the with block
Export ==
    /\ pc = "export"
    /\ pc' = "tape_exit"
    /\ UNCHANGED <<confVars, batch, frame, sub, tape, mpm_solver, img_list, stage_reads,
                   stage_writes, taped_subs, last_taped, fileVars, prepVars, auxVars>>

\* end of the with block of lines 439-444
FrameTapeExit ==
    /\ pc = "tape_exit"
    /\ tape' = tape_exit(tape)
    /\ pc' = "couple"
    /\ UNCHANGED <<confVars, batch, frame, sub, mpm_solver, img_list, stage_reads,
                   stage_writes, taped_subs, last_taped, fileVars, prepVars, auxVars>>

\* lines 446-482: coupling, rasterization, img_list.append(rendering)
CoupleRender ==
    /\ pc = "couple"
    /\ img_list' = img_list + 1
    /\ frame' = frame + 1
    /\ inv_used' = transform
    /\ pc' = "frame"
    /\ UNCHANGED <<confVars, batch, sub, tape, mpm_solver, stage_reads, stage_writes,
                   taped_subs, last_taped, fileVars, prepVars,
                   warmups, loss, missing, transform, arg, res, advances, out_dir>>

\* Mutant: the frame loop ends one frame early.
FramesDoneMut ==
    /\ pc = "frame"
    /\ frame = frame_per_stage - 1
    /\ pc' = "score"
    /\ UNCHANGED <<confVars, batch, frame, sub, tape, mpm_solver, img_list, stage_reads,
                   stage_writes, taped_subs, last_taped, fileVars, prepVars, auxVars>>

\* line 417: the frame loop is exhausted; line 484 starts
FramesDone ==
    /\ pc = "frame"
    /\ frame = frame_per_stage
    /\ pc' = "score"
    /\ UNCHANGED <<confVars, batch, frame, sub, tape, mpm_solver, img_list, stage_reads,
                   stage_writes, taped_subs, last_taped, fileVars, prepVars, auxVars>>

\* What lines 484-491 leave in loss: the Python float 0.0 when guidance_out
\* has no key starting with "loss_" (0. / stage_num), otherwise a tensor,
\* the scaled sum of the terms, whose value is finite or not.
LossValues == {"float0", "finite", "nonfinite"}

\* lines 484-492: guidance scoring of the stacked frames, loss
Score ==
    /\ pc = "score"
    /\ loss' \in LossValues
    /\ pc' = "backward"
    /\ UNCHANGED <<confVars, batch, frame, sub, tape, mpm_solver, img_list, stage_reads,
                   stage_writes, taped_subs, last_taped, fileVars, prepVars,
                   warmups, missing, transform, inv_used, arg, res, advances, out_dir>>

\* Mutant: the backward pass skipped over when loss is not a tensor.
BackwardMut ==
    /\ pc = "backward"
    /\ pc' = "upd_E"
    /\ UNCHANGED <<confVars, batch, frame, sub, tape, mpm_solver, img_list, stage_reads,
                   stage_writes, taped_subs, last_taped, fileVars, prepVars, auxVars>>

\* lines 493-503: loss.backward, the seed loss_wp, tape.backward.  A float
\* has no backward method: line 493 raises AttributeError.  A tensor is
\* differentiated whatever its value; nothing tests it for NaN or infinity.
Backward ==
    /\ pc = "backward"
    /\ pc' = IF loss = "float0" THEN "abort" ELSE "upd_E"
    /\ UNCHANGED <<confVars, batch, frame, sub, tape, mpm_solver, img_list, stage_reads,
                   stage_writes, taped_subs, last_taped, fileVars, prepVars, auxVars>>

\* One normalize-and-update block: wp.launch(update_param, ..., [field q, grad, ...]).
UpdateField(q, here, next) ==
    /\ pc = here
    /\ mpm_solver' = update_param(mpm_solver, q)
    /\ stage_writes' = [stage_writes EXCEPT ![q] = @ + 1]
    /\ pc' = next
    /\ UNCHANGED <<confVars, batch, frame, sub, tape, img_list, stage_reads, taped_subs,
                   last_taped, fileVars, prepVars, auxVars>>

\* lines 504-507
UpdateE == UpdateField("E", "upd_E", "upd_mu_N")
\* lines 510-513
UpdateMuN == UpdateField("mu_N", "upd_mu_N", "upd_lam_N")
\* lines 515-518
UpdateLamN == UpdateField("lam_N", "upd_lam_N", "upd_viscosity")
\* Mutant: the last update block launched on E instead of viscosity.
UpdateViscosityMut == UpdateField("E", "upd_viscosity", "reset")
\* lines 520-523
UpdateViscosity == UpdateField("viscosity", "upd_viscosity", "reset")

\* Mutant: the reset done by loading anew and re-injecting the configured parameters.
ResetMut ==
    /\ pc = "reset"
    /\ mpm_solver' = set_parameters_dict(load_initial_data_from_torch(mpm_solver, mpm_init))
    /\ advances' = 0
    /\ pc' = "out_branch"
    /\ UNCHANGED <<confVars, batch, frame, sub, tape, img_list, stage_reads, stage_writes,
                   taped_subs, last_taped, fileVars, prepVars, auxOld, out_dir>>

\* line 534
Reset ==
    /\ pc = "reset"
    /\ mpm_solver' = reset_pos_from_torch(mpm_solver, mpm_init)
    /\ advances' = 0
    /\ pc' = "out_branch"
    /\ UNCHANGED <<confVars, batch, frame, sub, tape, img_list, stage_reads, stage_writes,
                   taped_subs, last_taped, fileVars, prepVars, auxOld, out_dir>>

\* Mutant: the parity test inverted.
IsOutputStageMut(b) == b % 2 = 1

\* line 535
IsOutputStage(b) == b % 2 = 0

\* line 535, condition false: the stage ends
SkipOutput ==
    /\ pc = "out_branch"
    /\ ~IsOutputStage(batch)
    /\ batch' = batch + 1
    /\ pc' = "stage"
    /\ UNCHANGED <<confVars, frame, sub, tape, mpm_solver, img_list, stage_reads,
                   stage_writes, taped_subs, last_taped, fileVars, prepVars, auxVars>>

\* Mutant: the output rollout entered without the finalize of line 536.
OutFinalizeMut ==
    /\ pc = "out_branch"
    /\ IsOutputStage(batch)
    /\ stage_reads' = stage_reads + 1
    /\ frame' = 0
    /\ frames_written' = 0
    /\ pc' = "out_frame"
    /\ UNCHANGED <<confVars, batch, sub, tape, mpm_solver, img_list, stage_writes,
                   taped_subs, last_taped, img_stages, videos, prepVars, auxVars>>

\* lines 535-536, condition true: finalize outside any with block
OutFinalize ==
    /\ pc = "out_branch"
    /\ IsOutputStage(batch)
    /\ mpm_solver' = finalize_mu_lam(mpm_solver)
    /\ tape' = tape_record(tape)
    /\ stage_reads' = stage_reads + 1
    /\ frame' = 0
    /\ frames_written' = 0
    /\ pc' = "out_frame"
    /\ UNCHANGED <<confVars, batch, sub, img_list, stage_writes, taped_subs, last_taped,
                   img_stages, videos, prepVars, auxVars>>

\* str(n) for n >= 0
Digit(d) ==
    CASE d = 0 -> "0" [] d = 1 -> "1" [] d = 2 -> "2" [] d = 3 -> "3" [] d = 4 -> "4"
      [] d = 5 -> "5" [] d = 6 -> "6" [] d = 7 -> "7" [] d = 8 -> "8" [] d = 9 -> "9"
RECURSIVE Dec(_)
Dec(n) == IF n < 10 THEN Digit(n) ELSE Dec(n \div 10) \o Digit(n % 10)
\* str.rjust(width, fillchar)
RECURSIVE rjust(_, _, _)
rjust(str, width, fillchar) ==
    IF Len(str) >= width THEN str ELSE rjust(fillchar \o str, width, fillchar)

\* Mutant: the frame number cut to its last digit before padding.
FrameNameMut(f) == rjust(Dec(f % 10) \o ".png", 8, "0")

\* line 608: f"{frame}.png".rjust(8, "0")
FrameName(f) == rjust(Dec(f) \o ".png", 8, "0")
\* line 611: 'video%02d.mp4' % batch
VideoName(b) == "video" \o rjust(Dec(b), 2, "0") \o ".mp4"
\* A file written under a name replaces the file of that name.
write_file(dir, name, stage) ==
    {f \in dir : f.name # name} \cup {[name |-> name, stage |-> stage]}

\* line 537: the frames of an output rollout
OutFrames == stage_num * frame_per_stage

\* lines 537-555
OutFrameHead ==
    /\ pc = "out_frame"
    /\ frame < OutFrames
    /\ sub' = 0
    /\ taped_subs' = 0
    /\ pc' = "out_substeps"
    /\ UNCHANGED <<confVars, batch, frame, tape, mpm_solver, img_list, stage_reads,
                   stage_writes, last_taped, fileVars, prepVars, auxVars>>

\* lines 557-558
OutStep ==
    /\ pc = "out_substeps"
    /\ sub < step_per_frame
    /\ \E x \in 0..MaxX : Advance(x)
    /\ UNCHANGED <<pc, confVars, batch, frame, img_list, stage_reads, stage_writes,
                   fileVars, prepVars, auxOld, out_dir>>

\* Mutant: the inverse normalization with a scale and centroid recomputed
\* from the exported, deformed positions.
OutCoupleRenderMut ==
    /\ pc = "out_substeps"
    /\ sub = step_per_frame
    /\ inv_used' = TransformOf(mpm_solver.particle)
    /\ pc' = "out_write"
    /\ UNCHANGED <<confVars, batch, frame, sub, tape, mpm_solver, img_list, stage_reads,
                   stage_writes, taped_subs, last_taped, fileVars, prepVars,
                   warmups, loss, missing, transform, arg, res, advances, out_dir>>

\* lines 560-605: export, coupling (the inverse normalization of lines
\* 567-575 reads scale_origin, original_mean_pos and rotation_matrices),
\* rasterization, conversion of the image
OutCoupleRender ==
    /\ pc = "out_substeps"
    /\ sub = step_per_frame
    /\ inv_used' = transform
    /\ pc' = "out_write"
    /\ UNCHANGED <<confVars, batch, frame, sub, tape, mpm_solver, img_list, stage_reads,
                   stage_writes, taped_subs, last_taped, fileVars, prepVars,
                   warmups, loss, missing, transform, arg, res, advances, out_dir>>

\* lines 606-610, args.output_path given
OutWrite ==
    /\ pc = "out_write"
    /\ has_output_path
    /\ frames_written' = frames_written + 1
    /\ img_stages' = img_stages \cup {batch}
    /\ frame' = frame + 1
    /\ out_dir' = write_file(out_dir, FrameName(frame), batch)
    /\ pc' = "out_frame"
    /\ UNCHANGED <<confVars, batch, sub, tape, mpm_solver, img_list, stage_reads,
                   stage_writes, taped_subs, last_taped, videos, prepVars, auxOld, advances>>

\* Mutant: without an output path the frame is skipped and the rollout goes on.
OutAssertFailsMut ==
    /\ pc = "out_write"
    /\ ~has_output_path
    /\ frame' = frame + 1
    /\ pc' = "out_frame"
    /\ UNCHANGED <<confVars, batch, sub, tape, mpm_solver, img_list, stage_reads,
                   stage_writes, taped_subs, last_taped, fileVars, prepVars, auxVars>>

\* line 606, args.output_path is None: the assertion fails
OutAssertFails ==
    /\ pc = "out_write"
    /\ ~has_output_path
    /\ pc' = "abort"
    /\ UNCHANGED <<confVars, batch, frame, sub, tape, mpm_solver, img_list, stage_reads,
                   stage_writes, taped_subs, last_taped, fileVars, prepVars, auxVars>>

\* Mutant: save_video called inside the frame loop, after the first image.
SaveVideoMut ==
    /\ pc = "out_frame"
    /\ frame = 1
    /\ videos' = videos \cup {batch}
    /\ batch' = batch + 1
    /\ out_dir' = write_file(out_dir, VideoName(batch), batch)
    /\ pc' = "stage"
    /\ UNCHANGED <<confVars, frame, sub, tape, mpm_solver, img_list, stage_reads,
                   stage_writes, taped_subs, last_taped, frames_written, img_stages,
                   prepVars, auxOld, advances>>

\* line 611, after the frame loop of line 537; the stage ends
SaveVideo ==
    /\ pc = "out_frame"
    /\ frame = OutFrames
    /\ videos' = videos \cup {batch}
    /\ batch' = batch + 1
    /\ out_dir' = write_file(out_dir, VideoName(batch), batch)
    /\ pc' = "stage"
    /\ UNCHANGED <<confVars, frame, sub, tape, mpm_solver, img_list, stage_reads,
                   stage_writes, taped_subs, last_taped, frames_written, img_stages,
                   prepVars, auxOld, advances>>

Next ==
    \/ CheckPaths \/ DecodeParams \/ LoadCheckpoint \/ Preprocess
    \/ LoadInitialData \/ SetParameters \/ SetBoundaryConditions
    \/ LoadGuidanceConfig
    \/ StageStart \/ LoopEnd
    \/ FinalizeEnter \/ Finalize \/ FinalizeExit
    \/ WarmUpStep \/ WarmUpDone
    \/ FrameHead \/ UntapedStep \/ FrameTapeEnter \/ TapedStep \/ Export
    \/ FrameTapeExit \/ CoupleRender \/ FramesDone
    \/ Score \/ Backward
    \/ UpdateE \/ UpdateMuN \/ UpdateLamN \/ UpdateViscosity
    \/ Reset \/ SkipOutput \/ OutFinalize
    \/ OutFrameHead \/ OutStep \/ OutCoupleRender \/ OutWrite \/ OutAssertFails
    \/ SaveVideo

Spec == Init /\ [][Next]_vars

(***************************************************************************)
(* Phases of the stage loop, by position of the script.                    *)
(***************************************************************************)
Phase(p) ==
    CASE p \in {"check_paths", "decode_params", "load_gaussians", "preprocess", "load",
                "set_params", "set_bc", "guidance_config"} -> "Setup"
      [] p \in {"stage", "fin_enter", "fin", "fin_exit"} -> "StageStart"
      [] p = "warmup" -> "WarmUp"
      [] p \in {"frame", "substeps", "taped_step", "export", "tape_exit", "couple"}
            -> "RecordedRollout"
      [] p = "score" -> "Scored"
      [] p \in {"backward", "upd_E", "upd_mu_N", "upd_lam_N", "upd_viscosity"}
            -> "BackpropApplied"
      [] p \in {"reset", "out_branch"} -> "Reset"
      [] p \in {"out_frame", "out_substeps", "out_write"} -> "OutputRollout"
      [] OTHER -> "End"

UpdatePcs == {"upd_E", "upd_mu_N", "upd_lam_N", "upd_viscosity"}
AllFields(n) == [q \in FieldNames |-> n]

(***************************************************************************)
(* Claims on Spec.                                                         *)
(***************************************************************************)

\* C1 (as claimed): when a stage's differentiable rollout is about to perform
\* its first advance (finalize done, no substep of the stage yet), the
\* particle state equals the state captured at load time, in every stage.
C1_SameInitialCondition ==
    (pc = "warmup" /\ sub = 0) => mpm_solver.particle = mpm_init

\* C4 (as claimed): in every stage each material field is written exactly
\* once and the fields are read by finalization exactly once.
C4_WrittenOnceReadOnce ==
    /\ stage_reads <= 1
    /\ \A q \in FieldNames : stage_writes[q] <= 1
    /\ (pc = "stage" /\ batch > 0) =>
          (stage_reads = 1 /\ \A q \in FieldNames : stage_writes[q] = 1)

\* C4 (amended): in every stage each of the four fields is written exactly
\* once, by its update launch after the backward pass; finalization reads the
\* fields once at the start of the stage and, in an even stage, once more
\* after the reset, before the output rollout; nothing else in a stage
\* changes the fields or finalizes them.
C4_WrittenOnceReadPerRollout ==
    /\ [](/\ \A q \in FieldNames : stage_writes[q] <= 1
          /\ stage_reads <= 2
          /\ (pc = "stage" /\ batch > 0) =>
                /\ \A q \in FieldNames : stage_writes[q] = 1
                /\ stage_reads = IF (batch - 1) % 2 = 0 THEN 2 ELSE 1
          /\ (stage_reads = 2) =>
                \/ batch % 2 = 0 /\ (Phase(pc) = "OutputRollout" \/ pc = "abort")
                \/ (batch - 1) % 2 = 0 /\ pc = "stage")
    /\ [][/\ (mpm_solver'.field # mpm_solver.field) =>
                \/ pc = "set_params"
                \/ /\ pc \in UpdatePcs
                   /\ \E q \in FieldNames :
                         /\ pc = "upd_" \o q
                         /\ mpm_solver'.field =
                               [mpm_solver.field EXCEPT ![q] = @ + 1]
          /\ (mpm_solver'.mu_lam # mpm_solver.mu_lam) => pc \in {"fin", "out_branch"}
         ]_vars

\* C4 witness: an even stage has ended with each field written once and two
\* finalizations, and the following odd stage has finalized once.
C4_Witness ==
    /\ pc = "fin_exit" /\ batch = 1 /\ stage_reads = 1
    /\ mpm_solver.field = AllFields(1)

\* C5 (as claimed): whenever boundary conditions are installed on the
\* solver, material finalization has already been executed.
C5_BCAfterFinalize ==
    mpm_solver.bc => mpm_solver.mu_lam # <<>>

\* C5 (amended): boundary conditions are installed after the solver is loaded
\* and its material parameters are set, and before the first material
\* finalization: every finalization runs on a solver whose boundary
\* conditions are installed, and none has run when the stage loop begins.
C5_BCBeforeFinalize ==
    /\ mpm_solver.bc => (mpm_solver.loaded /\ mpm_solver.params)
    /\ mpm_solver.mu_lam # <<>> => mpm_solver.bc
    /\ (pc = "stage" /\ batch = 0) => (mpm_solver.bc /\ mpm_solver.mu_lam = <<>>)
    /\ pc \in {"fin", "out_branch"} => mpm_solver.bc

\* C5 witness: the first finalization has run, on installed boundary conditions.
C5_Witness ==
    pc = "fin_exit" /\ batch = 0 /\ mpm_solver.bc /\ mpm_solver.mu_lam = <<AllFields(0)>>

\* C6: a stage writes frame images and a video if and only if its index is
\* even: no image or video is ever written in an odd stage, and every stage
\* that has run to its end wrote both exactly when it is even.
C6_OutputOnlyEvenStages ==
    /\ \A b \in img_stages \cup videos : b % 2 = 0
    /\ \A b \in 0..(batch - 1) :
          /\ (b % 2 = 0) <=> (b \in img_stages)
          /\ (b % 2 = 0) <=> (b \in videos)
    /\ (Phase(pc) = "OutputRollout") => batch % 2 = 0

\* C6 witness: stage 0 wrote images and a video, stage 1 ended with neither.
C6_Witness ==
    /\ pc = "stage" /\ batch = 2
    /\ img_stages = {0} /\ videos = {0}

\* C7: the phases of a stage follow one another in the order StageStart,
\* WarmUp, RecordedRollout, Scored, BackpropApplied, Reset, optional
\* OutputRollout, next StageStart; scoring starts with all frames of the
\* stage rendered, fields are written only after the backward pass, the reset
\* runs with all four fields written, and the output rollout starts from the
\* reset state.
PhaseOrder ==
    { <<"Setup", "StageStart">>, <<"StageStart", "WarmUp">>,
      <<"WarmUp", "RecordedRollout">>, <<"RecordedRollout", "Scored">>,
      <<"Scored", "BackpropApplied">>, <<"BackpropApplied", "Reset">>,
      <<"Reset", "OutputRollout">>, <<"Reset", "StageStart">>,
      <<"OutputRollout", "StageStart">>,
      <<"StageStart", "End">>, <<"OutputRollout", "End">>, <<"Setup", "End">>,
      <<"BackpropApplied", "End">> }

C7_PhaseOrder ==
    /\ [][Phase(pc') = Phase(pc) \/ <<Phase(pc), Phase(pc')>> \in PhaseOrder]_vars
    /\ [](/\ Phase(pc) \in {"Scored", "BackpropApplied", "Reset", "OutputRollout"}
                => img_list = frame_per_stage
          /\ Phase(pc) \in {"StageStart", "WarmUp", "RecordedRollout", "Scored"}
                /\ ~(pc = "stage" /\ batch > 0)
                => stage_writes = AllFields(0)
          /\ pc = "backward" => stage_writes = AllFields(0)
          /\ pc \in {"reset", "out_branch"} \/ Phase(pc) = "OutputRollout"
                => stage_writes = AllFields(1)
          /\ (pc = "out_branch" \/ (pc = "out_frame" /\ frame = 0))
                => mpm_solver.particle = mpm_init)

\* C7 witness: an even stage has reached its output rollout after rendering
\* all frames, updating all fields and resetting.
C7_Witness ==
    /\ pc = "out_frame" /\ frame = 1 /\ batch = 2
    /\ img_list = frame_per_stage /\ stage_writes = AllFields(1)

\* C8: the reset restores the particle state captured at load time and
\* leaves the four material fields exactly as the stage's updates wrote them;
\* the next finalization derives the stiffness from those updated values.
C8_ResetKeepsFields ==
    /\ [][pc = "reset" =>
            /\ mpm_solver'.particle = mpm_init
            /\ mpm_solver'.field = mpm_solver.field
            /\ mpm_solver.field = AllFields(batch + 1)]_vars
    /\ [](/\ pc = "fin_exit" => mpm_solver.mu_lam = <<AllFields(batch)>>
          /\ Phase(pc) = "OutputRollout" => mpm_solver.mu_lam = <<AllFields(batch + 1)>>)

\* C8 witness: stage 1 finalized from the fields stage 0 wrote, updated them
\* again, and its reset has restored the loaded particle state.
C8_Witness ==
    /\ pc = "out_branch" /\ batch = 1
    /\ mpm_solver.particle = mpm_init /\ mpm_solver.field = AllFields(2)
    /\ mpm_solver.mu_lam = <<AllFields(1)>>

\* C9: in the differentiable rollout every warm-up substep and every substep
\* of a frame but the last runs outside any tape scope; the last substep of
\* each frame, and only it, runs inside one, and the frame's state is read in
\* that same scope after it.
C9_OnlyLastSubstepTaped ==
    /\ pc = "warmup" => (tape.open = 0 /\ taped_subs = 0 /\ (sub > 0 => ~last_taped))
    /\ pc = "substeps" => (tape.open = 0 /\ taped_subs = 0 /\ (sub > 0 => ~last_taped))
    /\ pc = "taped_step" =>
          (tape.open = 1 /\ taped_subs = 0 /\ sub = step_per_frame * (1 + stage_num) - 1)
    /\ pc \in {"export", "tape_exit"} =>
          /\ tape.open = 1 /\ last_taped /\ taped_subs = 1
          /\ sub = step_per_frame * (1 + stage_num)
    /\ pc = "couple" =>
          /\ tape.open = 0 /\ taped_subs = 1
          /\ sub = step_per_frame * (1 + stage_num)
          /\ tape.ops = frame + 2

\* C9 witness: the state of a frame of a stage with warm-up is about to be
\* read inside the scope of its last substep.
C9_Witness ==
    /\ pc = "export" /\ batch = 1 /\ frame = 3
    /\ tape.open = 1 /\ last_taped /\ taped_subs = 1

\* C10: at most one tape scope is open at any time, a scope is entered only
\* when none is open, and none is open during the backward pass, the field
\* updates, the reset and the output rollout.
C10_SingleTapeScope ==
    /\ tape.open \in {0, 1}
    /\ pc \in {"fin_enter", "substeps"} => tape.open = 0
    /\ pc \in {"fin", "fin_exit", "taped_step", "export", "tape_exit"} => tape.open = 1
    /\ Phase(pc) \in {"Scored", "BackpropApplied", "Reset", "OutputRollout"}
          => tape.open = 0

\* C10 witness: a scope is open for a frame's last substep in a later stage,
\* after earlier scopes were opened and closed.
C10_Witness ==
    pc = "taped_step" /\ tape.open = 1 /\ batch = 2 /\ frame = 1 /\ tape.ops = 2

\* C11 (as claimed): for any two stages i < j of the run, stage j executes at
\* least as many warm-up substeps as stage i.
C11_WarmUpMonotone ==
    \A i, j \in 1..Len(warmups) : i < j => warmups[i] <= warmups[j]

\* C11 (amended): stage b executes step_per_frame * (b mod stage_num) warm-up
\* substeps: the count does not decrease from one stage to the next within
\* a block of stage_num consecutive stages (stage by stage, hence for any
\* two stages of a block) and falls back to zero at every stage whose index
\* is a multiple of stage_num.
C11_WarmUpModular ==
    /\ \A i \in 1..Len(warmups) :
          /\ warmups[i] = step_per_frame * ((i - 1) % stage_num)
          /\ (i - 1) % stage_num = 0 => warmups[i] = 0
          /\ (i > 1 /\ (i - 2) \div stage_num = (i - 1) \div stage_num)
                => warmups[i - 1] <= warmups[i]

\* C11 witness: stage 7 ran its 7 * step_per_frame warm-up substeps and stage
\* 8 ran none.
C11_Witness ==
    /\ Len(warmups) = 10
    /\ warmups[8] = 7 * step_per_frame
    /\ warmups[9] = 0

\* C14: with a required file missing the run aborts before the simulator is
\* loaded: it gets no further than the existence checks and the reads of the
\* scene configuration and of the model that follow them.
C14_MissingFileAbortsFirst ==
    (missing # {}) =>
        /\ pc \in {"check_paths", "decode_params", "load_gaussians", "abort"}
        /\ ~mpm_solver.loaded

\* C15: when the guidance output has no "loss_" term, the run aborts in that
\* stage before any of the four fields is updated: the fields are those the
\* stage started with, the only step taken is the abort, and nothing
\* follows an abort (no retry, no further stage).
C15_NoLossTermAborts ==
    /\ [](loss = "float0" =>
            /\ pc \in {"backward", "abort"}
            /\ stage_writes = AllFields(0)
            /\ mpm_solver.field = AllFields(batch))
    /\ [][loss = "float0" => (pc' = "abort" /\ mpm_solver' = mpm_solver /\ batch' = batch)]_vars
    /\ [][pc # "abort"]_vars

\* C15 witness: stage 1 aborted on a guidance output without loss terms,
\* with the fields as stage 0 left them.
C15_Witness ==
    /\ pc = "abort"
    /\ loss = "float0"
    /\ batch = 1
    /\ mpm_solver.field = AllFields(1)
    /\ stage_writes = AllFields(0)

\* C16: when the loss of a stage is not finite the run aborts in that stage:
\* no field is updated from it and no later stage starts.
C16_NonFiniteLossAborts ==
    (loss = "nonfinite") =>
        /\ Phase(pc) \in {"BackpropApplied", "End"}
        /\ stage_writes = AllFields(0)

\* C18: a run without fatal error executes exactly NumBatches stages, in
\* increasing index order (stage b starts when exactly b stages have run,
\* and the index moves by one), then stops: nothing follows the end of the
\* loop.
C18_TerminalAfterStages ==
    /\ [](pc = "done" => (batch = NumBatches /\ Len(warmups) = NumBatches))
    /\ [](batch <= NumBatches /\ Len(warmups) <= NumBatches)
    /\ [][batch' = batch \/ batch' = batch + 1]_vars
    /\ [][(pc = "stage" /\ pc' = "fin_enter") =>
             (batch < NumBatches /\ batch' = batch)]_vars
    /\ [][Len(warmups') # Len(warmups) =>
             (Len(warmups) = batch /\ Len(warmups') = batch + 1)]_vars
    /\ [][pc # "done"]_vars

\* C18 witness: the loop has ended after its 50 stages.
C18_Witness ==
    /\ pc = "done"
    /\ batch = 50
    /\ Len(warmups) = 50
    /\ videos = {b \in 0..49 : b % 2 = 0}

\* C19: the Transform Record is the one computed during preprocessing from
\* the original particle set; no step after preprocessing changes it, and
\* every frame's inverse normalization, in the differentiable and in the
\* output rollout, uses exactly those values.
C19_TransformRecordFixed ==
    /\ [](Phase(pc) \notin {"Setup", "End"} => transform = TransformOf(mpm_init))
    /\ [][pc # "preprocess" => transform' = transform]_vars
    /\ [][inv_used' # inv_used => inv_used' = TransformOf(mpm_init)]_vars
    /\ [][((pc = "couple" /\ pc' = "frame") \/ (pc = "out_substeps" /\ pc' = "out_write"))
             => inv_used' = TransformOf(mpm_init)]_vars

\* C19 witness: in stage 2, after two resets, a frame of the output rollout
\* was coupled from a deformed state with the record of preprocessing.
C19_Witness ==
    /\ pc = "out_write"
    /\ batch = 2
    /\ mpm_solver.particle # mpm_init
    /\ transform = TransformOf(mpm_init)
    /\ inv_used = transform
    /\ TransformOf(mpm_solver.particle) # transform

\* C20: in an output rollout the image of frame k is the (k+1)-th written,
\* one image per frame, each written after exactly step_per_frame advances
\* since the frame began; the video is assembled only when all
\* stage_num * frame_per_stage images of that rollout have been written.
C20_FramesThenVideo ==
    /\ [][frames_written' # frames_written =>
             \/ (pc = "out_branch" /\ frames_written' = 0)
             \/ /\ pc = "out_write"
                /\ batch % 2 = 0
                /\ sub = step_per_frame
                /\ frames_written = frame
                /\ frames_written' = frames_written + 1
                /\ frame' = frame + 1]_vars
    /\ [][(pc = "out_substeps" /\ pc' = "out_write") => sub = step_per_frame]_vars
    /\ [][(pc = "out_frame" /\ pc' = "out_substeps") => (sub' = 0 /\ frames_written = frame)]_vars
    /\ [][videos' # videos =>
             /\ videos' = videos \cup {batch}
             /\ batch % 2 = 0
             /\ frames_written = stage_num * frame_per_stage
             /\ frame = stage_num * frame_per_stage]_vars
    /\ [](Phase(pc) = "OutputRollout" => frames_written <= stage_num * frame_per_stage)

\* C20 witness: the video of stage 2 has just been assembled, after the 128
\* images of its rollout.
C20_Witness ==
    /\ pc = "stage"
    /\ batch = 3
    /\ videos = {0, 2}
    /\ frames_written = 128

\* C22: every advance, in the warm-up, in the frames of a differentiable
\* rollout and in an output rollout, is made on a solver that has been
\* loaded, given its material parameters, and finalized since its most
\* recent load or reset; and each rollout is entered that way.
C22_ReadyBeforeAdvance ==
    /\ [][sub' = sub + 1 =>
             /\ pc \in {"warmup", "substeps", "taped_step", "out_substeps"}
             /\ mpm_solver.loaded /\ mpm_solver.params /\ mpm_solver.finalized]_vars
    /\ [][mpm_solver'.particle # mpm_solver.particle =>
             (sub' = sub + 1 \/ pc \in {"load", "reset"})]_vars
    /\ [](pc \in {"warmup", "substeps", "taped_step", "out_frame", "out_substeps"} =>
             (mpm_solver.loaded /\ mpm_solver.params /\ mpm_solver.finalized))
    /\ [](mpm_solver.params => mpm_solver.loaded)

\* C22 witness: the first advance of the output rollout of stage 2 has been
\* made, after that stage's reset and the finalize that follows it.
C22_Witness ==
    /\ pc = "out_substeps" /\ batch = 2 /\ frame = 0 /\ sub = 1
    /\ mpm_solver.loaded /\ mpm_solver.params /\ mpm_solver.finalized
    /\ stage_reads = 2

\* C23: without an output path the run aborts at the first frame that is to
\* be written, in the output rollout of stage 0: no image and no video is
\* ever written, no further stage starts, and the run does not reach the
\* end of the loop.
C23_NoOutputPathAborts ==
    /\ [](~has_output_path =>
            /\ img_stages = {} /\ videos = {} /\ frames_written = 0
            /\ batch = 0
            /\ pc # "done"
            /\ (pc = "out_write" => frame = 0))
    /\ [][(~has_output_path /\ pc = "out_write") =>
             (pc' = "abort" /\ fileVars' = fileVars)]_vars
    /\ [][(~has_output_path /\ pc = "abort") => FALSE]_vars

\* C23 witness: a run without output path aborted at the first frame of the
\* output rollout of stage 0, after that stage's updates and reset.
C23_Witness ==
    /\ pc = "abort" /\ ~has_output_path
    /\ batch = 0 /\ frame = 0 /\ sub = step_per_frame
    /\ stage_writes = AllFields(1) /\ stage_reads = 2
    /\ frames_written = 0 /\ videos = {}

\* C24: counting the advances since the stage began, frame k of the
\* differentiable rollout of stage b is exported after exactly
\* step_per_frame * ((b mod stage_num) + (k + 1) * (1 + stage_num)) of them
\* and the rollout ends after
\* step_per_frame * ((b mod stage_num) + frame_per_stage * (1 + stage_num));
\* counting since the reset, frame k of an output rollout is exported after
\* step_per_frame * (k + 1).
C24_SubstepCounts ==
    /\ [](pc = "export" =>
            advances = step_per_frame * ((batch % stage_num)
                                        + (frame + 1) * (1 + stage_num)))
    /\ [](pc \in {"score", "backward"} \cup UpdatePcs \cup {"reset"} =>
            advances = step_per_frame * ((batch % stage_num)
                                        + frame_per_stage * (1 + stage_num)))
    /\ [](pc = "out_write" => advances = step_per_frame * (frame + 1))
    /\ [][(pc = "taped_step" /\ pc' = "export") => advances' = advances + 1]_vars
    /\ [][(pc = "out_substeps" /\ pc' = "out_write") => advances' = advances]_vars
    /\ [][advances' # advances =>
             \/ (advances' = advances + 1 /\ sub' = sub + 1
                   /\ mpm_solver' = p2g2p(mpm_solver, mpm_solver'.particle))
             \/ (advances' = 0 /\ pc \in {"stage", "reset"})]_vars

\* C24 witness: frame 3 of the differentiable rollout of stage 9 is being
\* exported, 1 warm-up and 4 * 9 frame units of substeps after the stage began.
C24_Witness ==
    /\ pc = "export" /\ batch = 9 /\ frame = 3
    /\ step_per_frame = 2
    /\ advances = 74

\* The names line 611 can give to a video, one per stage.
VideoNames == {VideoName(b) : b \in 0..(NumBatches - 1)}

\* The files of a directory that are videos, and those that are not.
VideoFiles(dir) == {f \in dir : f.name \in VideoNames}
ImageFiles(dir) == {f \in dir : f.name \notin VideoNames}

\* C25: whenever a video is assembled, the frame images in the output
\* directory are exactly the stage_num * frame_per_stage files written by
\* the current stage's output rollout, under pairwise distinct names, and the
\* videos of different stages have pairwise distinct names, so every video
\* written so far is still there as its own stage wrote it.
C25_FilesAtVideo ==
    /\ (pc = "out_frame" /\ frame = OutFrames) =>
          /\ ImageFiles(out_dir) =
                {[name |-> FrameName(k), stage |-> batch] : k \in 0..(OutFrames - 1)}
          /\ Cardinality({f.name : f \in ImageFiles(out_dir)}) = OutFrames
    /\ Cardinality(VideoNames) = NumBatches
    /\ VideoFiles(out_dir) = {[name |-> VideoName(b), stage |-> b] : b \in videos}

\* C25 witness: the video of stage 2 is about to be assembled; the last frame
\* image is the one stage 2 wrote and the video of stage 0 is still in place.
C25_Witness ==
    /\ pc = "out_frame" /\ frame = OutFrames /\ batch = 2
    /\ [name |-> "0127.png", stage |-> 2] \in out_dir
    /\ [name |-> "0000.png", stage |-> 2] \in out_dir
    /\ [name |-> "video00.mp4", stage |-> 0] \in out_dir
    /\ Cardinality(out_dir) = OutFrames + 1

(***************************************************************************)
(* SpecPrep: preprocessing of the particle set and per-frame coupling.     *)
(* An array is the sequence of the identities of its rows: a loaded        *)
(* particle is 1..NumParticles, a filler particle a larger number.  Masks  *)
(* and slices keep rows verbatim, so a row is known by its identity.       *)
(***************************************************************************)
Ids == 1..NumParticles
None == <<"None">>

\* tensor[mask, :] : the rows whose identity satisfies the mask, in order
Masked(rows, mask) == SelectSeq(rows, LAMBDA i : mask[i])
\* tensor[:n]
Prefix(rows, n) == SubSeq(rows, 1, IF n < Len(rows) THEN n ELSE Len(rows))
Range(rows) == {rows[k] : k \in 1..Len(rows)}

\* The configuration and the scene: opacity of each particle against a
\* threshold of 0, the result of find_far_points when the movable-region
\* point cloud exists, the box test when sim_area is given, the filler.
InitPrep ==
    /\ pc = "threshold"
    /\ cfg \in [ opacity : [Ids -> 0..1],
                 has_moving_pts : BOOLEAN,
                 far : [Ids -> BOOLEAN],
                 sim_area : BOOLEAN,
                 inbox : [Ids -> BOOLEAN],
                 filling : {"none", "fill", "fill_visualize"},
                 n_fill : 0..MaxFill ]
    /\ ~cfg.has_moving_pts => cfg.far = [i \in Ids |-> FALSE]
    /\ ~cfg.sim_area => cfg.inbox = [i \in Ids |-> TRUE]
    /\ cfg.filling = "none" => cfg.n_fill = 0
    /\ arrays = [ init_pos |-> [k \in Ids |-> k], init_cov |-> [k \in Ids |-> k],
                  init_opacity |-> [k \in Ids |-> k], init_shs |-> [k \in Ids |-> k],
                  rotated_pos |-> <<>>,
                  unselected_pos |-> None, unselected_cov |-> None,
                  unselected_opacity |-> None, unselected_shs |-> None,
                  mpm_init_pos |-> <<>>, mpm_init_cov |-> <<>>,
                  shs |-> <<>>, opacity |-> <<>>, gs_num |-> 0, init_len |-> 0 ]
    /\ raster = <<>>
    /\ step_per_frame = 1
    /\ has_output_path = TRUE
    /\ batch = 0
    /\ frame = 0
    /\ sub = 0
    /\ tape = [open |-> 0, ops |-> 0]
    /\ mpm_solver = NoSolver
    /\ img_list = 0
    /\ stage_reads = 0
    /\ stage_writes = [q \in FieldNames |-> 0]
    /\ taped_subs = 0
    /\ last_taped = FALSE
    /\ frames_written = 0
    /\ img_stages = {}
    /\ videos = {}
    /\ warmups = <<>>
    /\ loss = "none"
    /\ missing = {}
    /\ transform = <<>>
    /\ inv_used = <<>>
    /\ arg = <<>>
    /\ res = <<>>
    /\ advances = 0
    /\ out_dir = {}

\* lines 141-147: throw away low opacity kernels
OpacityThreshold ==
    /\ pc = "threshold"
    /\ LET mask == [i \in Ids |-> cfg.opacity[i] > 0]
       IN arrays' = [arrays EXCEPT !.init_pos = Masked(@, mask),
                                   !.init_cov = Masked(@, mask),
                                   !.init_opacity = Masked(@, mask),
                                   !.init_shs = Masked(@, mask)]
    /\ pc' = "moving_part"
    /\ UNCHANGED <<cfg, raster, loopKeep, auxVars>>

\* lines 150-174: optimize moving parts only
MovingPartSplit ==
    /\ pc = "moving_part"
    /\ cfg.has_moving_pts
    /\ LET freeze_mask == cfg.far
           keep_mask == [i \in Ids |-> ~cfg.far[i]]
       IN arrays' = [arrays EXCEPT
              !.unselected_pos = Masked(arrays.init_pos, freeze_mask),
              !.unselected_cov = Masked(arrays.init_cov, freeze_mask),
              !.unselected_opacity = Masked(arrays.init_opacity, freeze_mask),
              !.unselected_shs = Masked(arrays.init_shs, freeze_mask),
              !.init_pos = Masked(@, keep_mask),
              !.init_cov = Masked(@, keep_mask),
              !.init_opacity = Masked(@, keep_mask),
              !.init_shs = Masked(@, keep_mask)]
    /\ pc' = "rotate"
    /\ UNCHANGED <<cfg, raster, loopKeep, auxVars>>

\* line 157, no moving_part_points.ply
MovingPartSkip ==
    /\ pc = "moving_part"
    /\ ~cfg.has_moving_pts
    /\ pc' = "rotate"
    /\ UNCHANGED <<cfg, arrays, raster, loopKeep, auxVars>>

\* lines 184-188: rotation of the positions (rows keep their identity)
Rotate ==
    /\ pc = "rotate"
    /\ arrays' = [arrays EXCEPT !.rotated_pos = arrays.init_pos]
    /\ pc' = "sim_area"
    /\ UNCHANGED <<cfg, raster, loopKeep, auxVars>>

\* lines 194-210: select a sim area and save params of unselected particles
SimAreaSplit ==
    /\ pc = "sim_area"
    /\ cfg.sim_area
    /\ LET mask == cfg.inbox
           out_mask == [i \in Ids |-> ~cfg.inbox[i]]
       IN arrays' = [arrays EXCEPT
              !.unselected_pos = Masked(arrays.init_pos, out_mask),
              !.unselected_cov = Masked(arrays.init_cov, out_mask),
              !.unselected_opacity = Masked(arrays.init_opacity, out_mask),
              !.unselected_shs = Masked(arrays.init_shs, out_mask),
              !.rotated_pos = Masked(@, mask),
              !.init_cov = Masked(@, mask),
              !.init_opacity = Masked(@, mask),
              !.init_shs = Masked(@, mask)]
    /\ pc' = "fill"
    /\ UNCHANGED <<cfg, raster, loopKeep, auxVars>>

\* line 194, sim_area is None
SimAreaSkip ==
    /\ pc = "sim_area"
    /\ ~cfg.sim_area
    /\ pc' = "fill"
    /\ UNCHANGED <<cfg, arrays, raster, loopKeep, auxVars>>

\* fill_particles: the given positions followed by the new interior ones
fill_particles(pos, n) == pos \o [k \in 1..n |-> NumParticles + k]

\* init_filled_particles: appearance, opacity and covariance rows for the
\* given particles followed by rows for the new ones
init_filled_particles(rows, new_pos) == rows \o new_pos

\* lines 212-254: transform to the simulation frame, gs_num, filling, init_len
TransformAndFill ==
    /\ pc = "fill"
    /\ LET transformed_pos == arrays.rotated_pos
           filled == IF cfg.filling # "none"
                     THEN fill_particles(transformed_pos, cfg.n_fill)
                     ELSE transformed_pos
       IN arrays' = [arrays EXCEPT !.gs_num = Len(transformed_pos),
                                   !.mpm_init_pos = filled,
                                   !.init_len = Len(filled)]
    /\ pc' = "solver_arrays"
    /\ UNCHANGED <<cfg, raster, loopKeep, auxVars>>

\* lines 277-311 and 394-395: covariance, appearance and opacity of the
\* particles given to the solver and to the renderer
SolverArrays ==
    /\ pc = "solver_arrays"
    /\ IF cfg.filling = "fill_visualize"
       THEN LET new_pos == SubSeq(arrays.mpm_init_pos, arrays.gs_num + 1,
                                  Len(arrays.mpm_init_pos))
            IN arrays' = [arrays EXCEPT
                   !.shs = init_filled_particles(arrays.init_shs, new_pos),
                   !.opacity = init_filled_particles(arrays.init_opacity, new_pos),
                   !.mpm_init_cov = init_filled_particles(arrays.init_cov, new_pos),
                   !.gs_num = Len(arrays.mpm_init_pos)]
       ELSE arrays' = [arrays EXCEPT
                   !.mpm_init_cov = arrays.mpm_init_pos,
                   !.shs = arrays.init_shs,
                   !.opacity = arrays.init_opacity]
    /\ pc' = "load_solver"
    /\ UNCHANGED <<cfg, raster, loopKeep, auxVars>>

\* lines 317-324: the solver is created and loaded with the prepared arrays
LoadSolver ==
    /\ pc = "load_solver"
    /\ mpm_solver' = load_initial_data_from_torch(mpm_solver, mpm_init)
    /\ pc' = "frames"
    /\ UNCHANGED <<confVars, batch, frame, sub, tape, img_list, stage_reads,
                   stage_writes, taped_subs, last_taped, fileVars, prepVars, auxVars>>

\* lines 442-469 (and again 560-587): the arrays of one frame, from the
\* exported state (rows in the order of the loaded arrays) and the frozen rows
FrameArrays(a, c) ==
    LET pos0 == Prefix(Prefix(a.mpm_init_pos, a.gs_num), a.init_len)
        cov0 == Prefix(a.mpm_init_cov, a.gs_num)
        opacity_render == a.opacity
        shs_render == a.shs
        s1 == IF c.sim_area
              THEN [pos |-> pos0 \o a.unselected_pos, cov |-> cov0 \o a.unselected_cov,
                    opacity |-> opacity_render \o a.unselected_opacity,
                    shs |-> shs_render \o a.unselected_shs]
              ELSE [pos |-> pos0, cov |-> cov0, opacity |-> opacity_render,
                    shs |-> shs_render]
    IN IF c.has_moving_pts
       THEN [pos |-> s1.pos \o a.unselected_pos, cov |-> s1.cov \o a.unselected_cov,
             opacity |-> opacity_render \o a.unselected_opacity,
             shs |-> shs_render \o a.unselected_shs]
       ELSE s1

\* convert_SH: one color row per appearance row
convert_SH(shs) == shs

\* lines 442-481: coupling and rasterizer call of a differentiable-rollout frame
CoupleDiff ==
    /\ pc = "frames"
    /\ LET f == FrameArrays(arrays, cfg)
       IN raster' = [rollout |-> "differentiable", means3D |-> f.pos,
                     cov3D_precomp |-> f.cov, colors_precomp |-> convert_SH(f.shs),
                     opacities |-> f.opacity]
    /\ UNCHANGED <<pc, cfg, arrays, loopKeep, auxVars>>

\* lines 560-599: coupling and rasterizer call of an output-rollout frame
CoupleOut ==
    /\ pc = "frames"
    /\ LET f == FrameArrays(arrays, cfg)
       IN raster' = [rollout |-> "output", means3D |-> f.pos,
                     cov3D_precomp |-> f.cov, colors_precomp |-> convert_SH(f.shs),
                     opacities |-> f.opacity]
    /\ UNCHANGED <<pc, cfg, arrays, loopKeep, auxVars>>

NextPrep ==
    \/ OpacityThreshold \/ MovingPartSplit \/ MovingPartSkip \/ Rotate
    \/ SimAreaSplit \/ SimAreaSkip \/ TransformAndFill \/ SolverArrays \/ LoadSolver
    \/ CoupleDiff \/ CoupleOut

SpecPrep == InitPrep /\ [][NextPrep]_vars

(***************************************************************************)
(* Claims on SpecPrep.                                                     *)
(***************************************************************************)
\* The particles that pass the opacity threshold.
Retained == {i \in Ids : cfg.opacity[i] > 0}
\* Excluded by the movable-region partition ("far").
FarSet == {i \in Retained : cfg.has_moving_pts /\ cfg.far[i]}
\* Excluded by the sim-area box, among those the first partition kept.
OutsideSet == {i \in Retained \ FarSet : cfg.sim_area /\ ~cfg.inbox[i]}
\* Kept by both partitions.
SimulatedSet == Retained \ (FarSet \cup OutsideSet)
\* Particles the renderer shows from the solver: the simulated ones, and the
\* filler particles when they are visualized.
VisibleCount ==
    Cardinality(SimulatedSet) + IF cfg.filling = "fill_visualize" THEN cfg.n_fill ELSE 0

IsPermutationOf(rows, set) ==
    /\ Len(rows) = Cardinality(set)
    /\ Range(rows) = set

\* C2 (as claimed): for every frame of both rollouts and every preprocessing
\* configuration, the position, covariance, color and opacity arrays handed
\* to the rasterizer have the same length, that length is the
\* visible-plus-frozen particle count, and row i is the same particle in all
\* four.  Stated for scenes that leave something to simulate.
C2_IndexAlignment ==
    (raster # <<>> /\ SimulatedSet # {}) =>
        /\ Len(raster.means3D) = Len(raster.cov3D_precomp)
        /\ Len(raster.means3D) = Len(raster.colors_precomp)
        /\ Len(raster.means3D) = Len(raster.opacities)
        /\ Len(raster.means3D) = VisibleCount + Cardinality(FarSet \cup OutsideSet)
        /\ raster.cov3D_precomp = raster.means3D
        /\ raster.colors_precomp = raster.means3D
        /\ raster.opacities = raster.means3D

\* C3 (as claimed): with both a movable-region point cloud and a sim-area box
\* configured, the frozen rows re-attached at render time are the particles
\* excluded by either partition, each exactly once and verbatim, and the
\* simulated rows are exactly the particles kept by both.  Stated for scenes
\* that leave something to simulate.
C3_PartitionsCompose ==
    (raster # <<>> /\ cfg.has_moving_pts /\ cfg.sim_area /\ SimulatedSet # {}) =>
        LET n == arrays.gs_num
            frozen(rows) == SubSeq(rows, n + 1, Len(rows))
        IN /\ IsPermutationOf(frozen(raster.means3D), FarSet \cup OutsideSet)
           /\ IsPermutationOf(frozen(raster.cov3D_precomp), FarSet \cup OutsideSet)
           /\ IsPermutationOf(frozen(raster.opacities), FarSet \cup OutsideSet)
           /\ IsPermutationOf(frozen(raster.colors_precomp), FarSet \cup OutsideSet)
           /\ Range(Prefix(raster.means3D, n)) \cap Ids = SimulatedSet

\* C13: when no particle survives the opacity threshold, the run stops with
\* a fatal error at the thresholding step and the simulator is never loaded.
C13_EmptySetFailsFast ==
    (Retained = {}) =>
        /\ pc \in {"threshold", "abort"}
        /\ ~mpm_solver.loaded

(***************************************************************************)
(* SpecGrad: the gradient normalization of lines 504-523 as a function of  *)
(* one field's gradient tensor.  Gradients are finite numbers (integers    *)
(* here); results are exact fractions <<numerator, denominator>>.          *)
(***************************************************************************)
\* The variables of the stage loop and of preprocessing, at rest.
AtRest ==
    /\ step_per_frame = 1
    /\ has_output_path = TRUE
    /\ batch = 0
    /\ frame = 0
    /\ sub = 0
    /\ tape = [open |-> 0, ops |-> 0]
    /\ mpm_solver = NoSolver
    /\ img_list = 0
    /\ stage_reads = 0
    /\ stage_writes = [q \in FieldNames |-> 0]
    /\ taped_subs = 0
    /\ last_taped = FALSE
    /\ frames_written = 0
    /\ img_stages = {}
    /\ videos = {}
    /\ cfg = <<>>
    /\ arrays = <<>>
    /\ raster = <<>>
    /\ warmups = <<>>
    /\ loss = "none"
    /\ missing = {}
    /\ transform = <<>>
    /\ inv_used = <<>>
    /\ advances = 0
    /\ out_dir = {}

\* torch.max / torch.min of a tensor
TensorMax(g) == CHOOSE x \in Range(g) : \A y \in Range(g) : y <= x
TensorMin(g) == CHOOSE x \in Range(g) : \A y \in Range(g) : x <= y

\* x / d and r - 0.5 on exact fractions
RatDiv(x, d) == <<x, d>>
RatSubHalf(r) == <<2 * r[1] - r[2], 2 * r[2]>>
RatZero == <<0, 1>>

\* Mutant: the rescaling without the guard on the range.
normalizeMut(g) ==
    LET max_grad == TensorMax(g)
        min_grad == TensorMin(g)
    IN  [ grad |-> [k \in 1..Len(g) |->
                      RatSubHalf(RatDiv(g[k] - min_grad, max_grad - min_grad))],
          divisors |-> {max_grad - min_grad} ]

\* lines 505-506 (and 511-512, 516-517, 521-522):
\*   (grad - min_grad) / (max_grad - min_grad) - 0.5
\*       if max_grad - min_grad != 0 else torch.zeros_like(grad)
\* divisors records every divisor the evaluation used.
normalize(g) ==
    LET max_grad == TensorMax(g)
        min_grad == TensorMin(g)
    IN  IF max_grad - min_grad # 0
        THEN [ grad |-> [k \in 1..Len(g) |->
                           RatSubHalf(RatDiv(g[k] - min_grad, max_grad - min_grad))],
               divisors |-> {max_grad - min_grad} ]
        ELSE [ grad |-> [k \in 1..Len(g) |-> RatZero],
               divisors |-> {} ]

\* The gradient tensors a backward pass can leave on a field.
GradTensors ==
    UNION {[1..n -> (0 - MaxGrad)..MaxGrad] : n \in 1..MaxGradLen}

\* The field whose update is looked at, and the gradient found on it.
InitGrad ==
    /\ pc \in {"upd_E", "upd_mu_N", "upd_lam_N", "upd_viscosity"}
    /\ arg \in GradTensors
    /\ res = <<>>
    /\ AtRest

\* One field's normalization followed by its update_param launch, which is
\* handed the rescaled gradient.
NormalizeField(q, here, next) ==
    /\ pc = here
    /\ res' = [field |-> q, input |-> arg, out |-> normalize(arg)]
    /\ pc' = next
    /\ UNCHANGED <<loopKeep, prepVars, warmups, loss, missing, transform, inv_used, arg, advances, out_dir>>

\* lines 504-507
NormalizeE == NormalizeField("E", "upd_E", "launched")
\* lines 510-513
NormalizeMuN == NormalizeField("mu_N", "upd_mu_N", "launched")
\* lines 515-518
NormalizeLamN == NormalizeField("lam_N", "upd_lam_N", "launched")
\* lines 520-523
NormalizeViscosity == NormalizeField("viscosity", "upd_viscosity", "launched")

NextGrad == NormalizeE \/ NormalizeMuN \/ NormalizeLamN \/ NormalizeViscosity

SpecGrad == InitGrad /\ [][NextGrad]_vars

Axes == 1..3
Vec(x, y, z) == <<x, y, z>>
\* quarter turns about the three axes
RotX == <<Vec(1, 0, 0), Vec(0, 0, 0 - 1), Vec(0, 1, 0)>>
RotY == <<Vec(0, 0, 1), Vec(0, 1, 0), Vec(0 - 1, 0, 0)>>
RotZ == <<Vec(0, 0 - 1, 0), Vec(1, 0, 0), Vec(0, 0, 1)>>
Rotations == {RotX, RotY, RotZ}

Dot(a, b) == a[1] * b[1] + a[2] * b[2] + a[3] * b[3]
Transpose(R) ==
    << Vec(R[1][1], R[2][1], R[3][1]),
       Vec(R[1][2], R[2][2], R[3][2]),
       Vec(R[1][3], R[2][3], R[3][3]) >>
MatVec(R, v) == Vec(Dot(R[1], v), Dot(R[2], v), Dot(R[3], v))
MatMul(A, B) ==
    LET Bt == Transpose(B)
    IN <<MatVec(Bt, A[1]), MatVec(Bt, A[2]), MatVec(Bt, A[3])>>

\* arithmetic on fractions with a common denominator
Scaled(a, k) == Vec(a[1] * k, a[2] * k, a[3] * k)
VAdd(p, q) ==
    [n |-> Vec(p.n[1] * q.d + q.n[1] * p.d, p.n[2] * q.d + q.n[2] * p.d,
               p.n[3] * q.d + q.n[3] * p.d),
     d |-> p.d * q.d]
VSub(p, q) ==
    [n |-> Vec(p.n[1] * q.d - q.n[1] * p.d, p.n[2] * q.d - q.n[2] * p.d,
               p.n[3] * q.d - q.n[3] * p.d),
     d |-> p.d * q.d]
\* p * s and p / s for a scale s = <<numerator, denominator>>
VMul(p, s) == [n |-> Scaled(p.n, s[1]), d |-> p.d * s[2]]
VDiv(p, s) == [n |-> Scaled(p.n, s[2]), d |-> p.d * s[1]]
VEq(p, q) == \A i \in Axes : p.n[i] * q.d = q.n[i] * p.d
Ones == [n |-> Vec(1, 1, 1), d |-> 1]
MScale(c, k) == <<Scaled(c[1], k), Scaled(c[2], k), Scaled(c[3], k)>>
CMul(c, s) == [m |-> MScale(c.m, s[1]), d |-> c.d * s[2]]
CDiv(c, s) == [m |-> MScale(c.m, s[2]), d |-> c.d * s[1]]
CEq(c, e) == \A i, j \in Axes : c.m[i][j] * e.d = e.m[i][j] * c.d

\* apply_rotations / apply_inverse_rotations: the sequence in order, and
\* the transposes in reverse order
RECURSIVE apply_rotations(_, _)
apply_rotations(p, Rs) ==
    IF Rs = <<>> THEN p
    ELSE apply_rotations([p EXCEPT !.n = MatVec(Head(Rs), p.n)], Tail(Rs))

RECURSIVE apply_inverse_rotations(_, _)
apply_inverse_rotations(p, Rs) ==
    IF Rs = <<>> THEN p
    ELSE LET R == Rs[Len(Rs)]
         IN apply_inverse_rotations([p EXCEPT !.n = MatVec(Transpose(R), p.n)],
                                    SubSeq(Rs, 1, Len(Rs) - 1))

\* apply_cov_rotations / apply_inverse_cov_rotations: R S R^T in order, and
\* R^T S R in reverse order
RECURSIVE apply_cov_rotations(_, _)
apply_cov_rotations(c, Rs) ==
    IF Rs = <<>> THEN c
    ELSE LET R == Head(Rs)
         IN apply_cov_rotations([c EXCEPT !.m = MatMul(MatMul(R, c.m), Transpose(R))],
                                Tail(Rs))

RECURSIVE apply_inverse_cov_rotations(_, _)
apply_inverse_cov_rotations(c, Rs) ==
    IF Rs = <<>> THEN c
    ELSE LET R == Rs[Len(Rs)]
         IN apply_inverse_cov_rotations(
                [c EXCEPT !.m = MatMul(MatMul(Transpose(R), c.m), R)],
                SubSeq(Rs, 1, Len(Rs) - 1))

\* The centroid of the two particles of the set.
Centroid(ps) ==
    LET sum == VAdd(ps[1], ps[2])
    IN [n |-> sum.n, d |-> 2 * sum.d]
\* The largest extent of the set along an axis, as a fraction <<n, d>>.
Extent(ps) ==
    LET diff == VSub(ps[1], ps[2])
        abs(x) == IF x < 0 THEN 0 - x ELSE x
        m == CHOOSE x \in {abs(diff.n[i]) : i \in Axes} :
                \A y \in {abs(diff.n[i]) : i \in Axes} : y <= x
    IN <<m, diff.d>>
\* The scale factors a set may be given: the whole set fits the unit cube.
ScaleChoices == {<<1, 2>>, <<1, 1>>, <<2, 1>>}
Fits(ps, s) == Extent(ps)[1] * s[1] <= Extent(ps)[2] * s[2]

\* transform2origin / undotransform2origin: centre on the centroid and
\* rescale; divide by the scale and add the centroid back
transform2origin(p, s, mean) == VMul(VSub(p, mean), s)
undotransform2origin(p, s, mean) == VAdd(VDiv(p, s), mean)
\* shift2center111 / undoshift2center111
shift2center111(p) == VAdd(p, Ones)
undoshift2center111(p) == VSub(p, Ones)

\* lines 184-188, 212-213: a position to simulation coordinates, with the
\* Transform Record T
to_simulation_pos(p, T) ==
    shift2center111(
        transform2origin(apply_rotations(p, T.rotation_matrices),
                         T.scale_origin, T.original_mean_pos))
\* lines 216-217: init_cov = scale_origin * scale_origin * init_cov
to_simulation_cov(c, T) ==
    CMul(CMul(apply_cov_rotations(c, T.rotation_matrices), T.scale_origin),
         T.scale_origin)

\* Mutant: the scale undone before the centering shift.
from_simulation_posMut(p, T) ==
    apply_inverse_rotations(
        undoshift2center111(
            undotransform2origin(p, T.scale_origin, T.original_mean_pos)),
        T.rotation_matrices)

\* lines 450-455 (and 568-573)
from_simulation_pos(p, T) ==
    apply_inverse_rotations(
        undotransform2origin(undoshift2center111(p), T.scale_origin,
                             T.original_mean_pos),
        T.rotation_matrices)
\* lines 456-457 (and 574-575): cov3D / (scale_origin * scale_origin)
from_simulation_cov(c, T) ==
    apply_inverse_cov_rotations(CDiv(CDiv(c, T.scale_origin), T.scale_origin),
                                T.rotation_matrices)

Coords == 0..MaxCoord
Points == {[n |-> Vec(x, y, z), d |-> 1] : x, y, z \in Coords}
\* symmetric covariance matrices, of one particle of the set
Covariances ==
    { [m |-> <<Vec(1, 0, 0), Vec(0, 2, 0), Vec(0, 0, 3)>>, d |-> 1],
      [m |-> <<Vec(2, 1, 0), Vec(1, 2, 1), Vec(0, 1, 4)>>, d |-> 1],
      [m |-> <<Vec(3, 0 - 1, 2), Vec(0 - 1, 1, 0), Vec(2, 0, 5)>>, d |-> 2] }
RotationSeqs == UNION {[1..n -> Rotations] : n \in 0..MaxRot}

\* The particle set is unordered: its two positions are listed in
\* lexicographic order.
LexLeq(a, b) ==
    \/ a[1] < b[1]
    \/ a[1] = b[1] /\ a[2] < b[2]
    \/ a[1] = b[1] /\ a[2] = b[2] /\ a[3] <= b[3]

InitRoundTrip ==
    /\ pc = "to_simulation"
    /\ arg \in [ pos : [1..2 -> Points], cov : Covariances, rot : RotationSeqs ]
    /\ LexLeq(arg.pos[1].n, arg.pos[2].n)
    /\ res = <<>>
    /\ AtRest

\* lines 184-217: the Transform Record is computed from the original set
\* and the set is brought to simulation coordinates
ToSimulation ==
    /\ pc = "to_simulation"
    /\ LET rotated == << apply_rotations(arg.pos[1], arg.rot),
                         apply_rotations(arg.pos[2], arg.rot) >>
           mean == Centroid(rotated)
       IN \E s \in ScaleChoices :
            LET T == [ rotation_matrices |-> arg.rot, scale_origin |-> s,
                       original_mean_pos |-> mean ]
            IN /\ Fits(rotated, s)
               /\ transform' = T
               /\ res' = [ pos |-> << to_simulation_pos(arg.pos[1], T),
                                      to_simulation_pos(arg.pos[2], T) >>,
                           cov |-> to_simulation_cov(arg.cov, T) ]
    /\ pc' = "from_simulation"
    /\ UNCHANGED <<loopKeep, prepVars, warmups, loss, missing, inv_used, arg, advances, out_dir>>

\* lines 449-457: the exported state is brought back to world coordinates
FromSimulation ==
    /\ pc = "from_simulation"
    /\ res' = [ pos |-> << from_simulation_pos(res.pos[1], transform),
                           from_simulation_pos(res.pos[2], transform) >>,
                cov |-> from_simulation_cov(res.cov, transform) ]
    /\ inv_used' = transform
    /\ pc' = "round_trip_done"
    /\ UNCHANGED <<loopKeep, prepVars, warmups, loss, missing, transform, arg, advances, out_dir>>

NextRoundTrip == ToSimulation \/ FromSimulation

SpecRoundTrip == InitRoundTrip /\ [][NextRoundTrip]_vars

\* C17: the inverse pipeline applied to the result of the forward pipeline
\* returns the original positions and covariances, for every particle set,
\* rotation sequence and scale.
C17_RoundTrip ==
    (pc = "round_trip_done") =>
        /\ \A k \in 1..2 : VEq(res.pos[k], arg.pos[k])
        /\ CEq(res.cov, arg.cov)

\* C17 witness: a round trip through two rotations and a scale of 1/2 that
\* moved the particles in between.
C17_Witness ==
    /\ pc = "round_trip_done"
    /\ Len(transform.rotation_matrices) = 2
    /\ transform.scale_origin = <<1, 2>>
    /\ arg.pos[1] # arg.pos[2]
    /\ ~VEq(to_simulation_pos(arg.pos[1], transform), arg.pos[1])
    /\ ~CEq(to_simulation_cov(arg.cov, transform), arg.cov)
    /\ VEq(res.pos[1], arg.pos[1])

(***************************************************************************)
(* SpecBox: the rotation of lines 184-188 and the sim-area selection of    *)
(* lines 194-210, on particles with coordinates.  A position row is        *)
(* [id, p]; the rows of the other arrays are particle identities.          *)
(***************************************************************************)
\* One axis of a box: everything from coordinate 0 up, with or without the
\* coordinate 0 itself (the edge lies on it).
BoxRanges == {<<0 - 1, MaxCoord + 1>>, <<0, MaxCoord + 1>>}
\* preprocessing_params["sim_area"]: six scalars, or None
Boundaries ==
    {<<x[1], x[2], y[1], y[2], z[1], z[2]>> : x, y, z \in BoxRanges} \cup {None}

\* rotated_pos[:, i] > boundary[2 * i] and rotated_pos[:, i] < boundary[2 * i + 1]
\* on exact fractions (i from 1 here)
Above(p, i, edge) == p.n[i] > edge * p.d
Below(p, i, edge) == p.n[i] < edge * p.d

\* Mutant: the box test with its edges included.
sim_area_maskMut(p, boundary) ==
    \A i \in Axes :
        /\ ~Below(p, i, boundary[2 * i - 1])
        /\ ~Above(p, i, boundary[2 * i])

\* lines 197-200: the mask entry of a row of rotated_pos
sim_area_mask(p, boundary) ==
    \A i \in Axes :
        /\ Above(p, i, boundary[2 * i - 1])
        /\ Below(p, i, boundary[2 * i])

InitBox ==
    /\ pc = "rotate"
    /\ arg \in [ pos : [1..2 -> Points], rot : RotationSeqs, sim_area : Boundaries ]
    /\ LexLeq(arg.pos[1].n, arg.pos[2].n)
    /\ res = [ init_pos |-> <<[id |-> 1, p |-> arg.pos[1]], [id |-> 2, p |-> arg.pos[2]]>>,
               init_cov |-> <<1, 2>>, init_opacity |-> <<1, 2>>, init_shs |-> <<1, 2>>,
               rotated_pos |-> <<>>,
               unselected_pos |-> None, unselected_cov |-> None,
               unselected_opacity |-> None, unselected_shs |-> None ]
    /\ AtRest

\* lines 184-188
BoxRotate ==
    /\ pc = "rotate"
    /\ res' = [res EXCEPT !.rotated_pos =
                  << [id |-> 1, p |-> apply_rotations(res.init_pos[1].p, arg.rot)],
                     [id |-> 2, p |-> apply_rotations(res.init_pos[2].p, arg.rot)] >>]
    /\ pc' = "sim_area"
    /\ UNCHANGED <<loopKeep, prepVars, warmups, loss, missing, transform, inv_used, arg, advances, out_dir>>

\* tensor[mask, :] for a mask given per row position
MaskedRows(rows, mask) ==
    (IF mask[1] THEN <<rows[1]>> ELSE <<>>) \o (IF mask[2] THEN <<rows[2]>> ELSE <<>>)

\* lines 194-210, sim_area given
BoxSplit ==
    /\ pc = "sim_area"
    /\ arg.sim_area # None
    /\ LET boundary == arg.sim_area
           mask == << sim_area_mask(res.rotated_pos[1].p, boundary),
                      sim_area_mask(res.rotated_pos[2].p, boundary) >>
           not_mask == << ~mask[1], ~mask[2] >>
       IN res' = [res EXCEPT
              !.unselected_pos = MaskedRows(res.init_pos, not_mask),
              !.unselected_cov = MaskedRows(res.init_cov, not_mask),
              !.unselected_opacity = MaskedRows(res.init_opacity, not_mask),
              !.unselected_shs = MaskedRows(res.init_shs, not_mask),
              !.rotated_pos = MaskedRows(@, mask),
              !.init_cov = MaskedRows(@, mask),
              !.init_opacity = MaskedRows(@, mask),
              !.init_shs = MaskedRows(@, mask)]
    /\ pc' = "box_done"
    /\ UNCHANGED <<loopKeep, prepVars, warmups, loss, missing, transform, inv_used, arg, advances, out_dir>>

\* line 194, sim_area is None
BoxSkip ==
    /\ pc = "sim_area"
    /\ arg.sim_area = None
    /\ pc' = "box_skipped"
    /\ UNCHANGED <<loopKeep, prepVars, auxVars>>

NextBox == BoxRotate \/ BoxSplit \/ BoxSkip

SpecBox == InitBox /\ [][NextBox]_vars

\* The identities held by an array of position rows.
RowIds(rows) == {rows[k].id : k \in 1..Len(rows)}
\* After the selection: all four arrays of the simulated set hold the
\* particles of sim, in the same order, and all four of the frozen set the
\* others; no particle is in both or in neither.
SplitBy(sim) ==
    LET ids(rows) == [k \in 1..Len(rows) |-> rows[k].id]
    IN /\ RowIds(res.rotated_pos) = sim
       /\ RowIds(res.unselected_pos) = {1, 2} \ sim
       /\ Len(res.rotated_pos) + Len(res.unselected_pos) = 2
       /\ res.init_cov = ids(res.rotated_pos)
       /\ res.init_opacity = ids(res.rotated_pos)
       /\ res.init_shs = ids(res.rotated_pos)
       /\ res.unselected_cov = ids(res.unselected_pos)
       /\ res.unselected_opacity = ids(res.unselected_pos)
       /\ res.unselected_shs = ids(res.unselected_pos)

\* C21 (as claimed): with a sim-area box, a particle stays simulated exactly
\* when its position before the forward transform (before the rotation) is
\* inside the box; the others are frozen, all arrays split by that mask.
C21_BoxOnOriginalPositions ==
    (pc = "box_done") =>
        SplitBy({k \in {1, 2} : sim_area_mask(arg.pos[k], arg.sim_area)})

\* C21 (amended): with a sim-area box, a particle stays simulated exactly when
\* its rotated position (after the rotation sequence, before centring and
\* rescaling) is strictly inside the box on all three axes; the others are
\* frozen with their unrotated positions, and positions, covariances,
\* opacities and appearance rows are split by that one mask.
C21_BoxOnRotatedPositions ==
    (pc = "box_done") =>
        /\ SplitBy({k \in {1, 2} :
                      LET r == apply_rotations(arg.pos[k], arg.rot)
                      IN \A i \in Axes : /\ r.n[i] > arg.sim_area[2 * i - 1] * r.d
                                         /\ r.n[i] < arg.sim_area[2 * i] * r.d})
        /\ \A k \in 1..Len(res.unselected_pos) :
              res.unselected_pos[k].p = arg.pos[res.unselected_pos[k].id]
        /\ \A k \in 1..Len(res.rotated_pos) :
              res.rotated_pos[k].p = apply_rotations(arg.pos[res.rotated_pos[k].id], arg.rot)

\* C21 witness: under a rotation, particle 1 stayed simulated and particle 2,
\* whose unrotated position is inside the box, was frozen.
C21_Witness ==
    /\ pc = "box_done"
    /\ arg.rot # <<>>
    /\ RowIds(res.rotated_pos) = {1}
    /\ RowIds(res.unselected_pos) = {2}
    /\ sim_area_mask(arg.pos[2], arg.sim_area)

====
